---- MODULE Spec2Model ----
(***************************************************************************)
(* Error provenance tracer of linux-trace-error.                           *)
(*                                                                         *)
(*   - kernel/trace_error.c      set_last_err                              *)
(*   - include/linux/trace_error.h   struct last_err, ERR()                *)
(*   - spatch_errors.sh          the Coccinelle call-site transformation   *)
(*   - the instrumented call sites of the tree                             *)
(***************************************************************************)
EXTENDS Integers, Sequences, FiniteSets, TLC

(***************************************************************************)
(* Part 1.  spatch_errors.sh: the list of error names and the semantic     *)
(* patch.  Names are sequences of characters so that the script's regular  *)
(* expressions are evaluated on them as grep evaluates them.               *)
(***************************************************************************)

Upper == {"A","B","C","D","E","F","G","H","I","J","K","L","M",
          "N","O","P","Q","R","S","T","U","V","W","X","Y","Z"}

Digits == {"0","1","2","3","4","5","6","7","8","9"}

EBUSY        == <<"E","B","U","S","Y">>
ENOENT       == <<"E","N","O","E","N","T">>
EACCES       == <<"E","A","C","C","E","S">>
EBADMSG      == <<"E","B","A","D","M","S","G">>
EHOSTDOWN    == <<"E","H","O","S","T","D","O","W","N">>
EPROTO       == <<"E","P","R","O","T","O">>
EBADRQC      == <<"E","B","A","D","R","Q","C">>
EMSGSIZE     == <<"E","M","S","G","S","I","Z","E">>
EALREADY     == <<"E","A","L","R","E","A","D","Y">>
ECONNREFUSED == <<"E","C","O","N","N","R","E","F","U","S","E","D">>
ECOMM        == <<"E","C","O","M","M">>
ETIMEDOUT    == <<"E","T","I","M","E","D","O","U","T">>
ENOSYS       == <<"E","N","O","S","Y","S">>
E2BIG        == <<"E","2","B","I","G">>
EOPNOTSUPP   == <<"E","O","P","N","O","T","S","U","P","P">>
ENODEV       == <<"E","N","O","D","E","V">>
ENOMEM       == <<"E","N","O","M","E","M">>
EFAULT       == <<"E","F","A","U","L","T">>
EAGAIN       == <<"E","A","G","A","I","N">>
EWOULDBLOCK  == <<"E","W","O","U","L","D","B","L","O","C","K">>
EPROBE_DEFER == <<"E","P","R","O","B","E","_","D","E","F","E","R">>
EFSCORRUPTED == <<"E","F","S","C","O","R","R","U","P","T","E","D">>
EUCLEAN      == <<"E","U","C","L","E","A","N">>
ERRNO_GUARD  == <<"_","L","I","N","U","X","_","E","R","R","N","O","_","H">>

\* The #define lines of the three headers the script reads: macro name and
\* the first token of the macro body.
HeaderDefines ==
    { [name |-> ERRNO_GUARD,  body |-> << >>],
      [name |-> ENOENT,       body |-> <<"2">>],
      [name |-> E2BIG,        body |-> <<"7">>],
      [name |-> EAGAIN,       body |-> <<"1","1">>],
      [name |-> EACCES,       body |-> <<"1","3">>],
      [name |-> ENOMEM,       body |-> <<"1","2">>],
      [name |-> EFAULT,       body |-> <<"1","4">>],
      [name |-> EBUSY,        body |-> <<"1","6">>],
      [name |-> ENODEV,       body |-> <<"1","9">>],
      [name |-> EWOULDBLOCK,  body |-> EAGAIN],
      [name |-> EBADMSG, body |-> <<"7","4">>],
      [name |-> EHOSTDOWN, body |-> <<"1","1","2">>],
      [name |-> EPROTO, body |-> <<"7","1">>],
      [name |-> EBADRQC, body |-> <<"5","6">>],
      [name |-> EMSGSIZE, body |-> <<"9","0">>],
      [name |-> EALREADY, body |-> <<"1","1","4">>],
      [name |-> ECONNREFUSED, body |-> <<"1","1","1">>],
      [name |-> ECOMM, body |-> <<"7","0">>],
      [name |-> ETIMEDOUT, body |-> <<"1","1","0">>],
      [name |-> ENOSYS, body |-> <<"3","8">>],
      [name |-> EOPNOTSUPP,   body |-> <<"9","5">>],
      [name |-> EUCLEAN,      body |-> <<"1","1","7">>],
      [name |-> EPROBE_DEFER, body |-> <<"5","1","7">>] }

\* grep '^#define\s\+E[A-Z0-9]\+\s\+[0-9]\+'
GrepDefine(l) ==
    /\ Len(l.name) >= 2
    /\ l.name[1] = "E"
    /\ \A i \in 2..Len(l.name) : l.name[i] \in Upper \cup Digits
    /\ Len(l.body) >= 1
    /\ l.body[1] \in Digits

Contains(s, pat) ==
    \E i \in 1..(Len(s) - Len(pat) + 1) : SubSeq(s, i, i + Len(pat) - 1) = pat

\* An empty ignore list.
IGNORE_nothing(name) == FALSE

\* IGNORE_ERRORS='(ENOMEM|EFAULT)', used by grep -Ev: a line is dropped when
\* the pattern occurs anywhere in it.
IGNORE_ERRORS(name) == Contains(name, ENOMEM) \/ Contains(name, EFAULT)

\* ERRORS=$( cat ... | grep ... | awk '{print $2}' | sort -u | grep -Ev ... )
ERRORS == { l.name : l \in { d \in HeaderDefines : GrepDefine(d) /\ ~IGNORE_ERRORS(d.name) } }

(***************************************************************************)
(* C abstract syntax, as far as the semantic patch distinguishes it.       *)
(* Expressions: id, num, neg (-a), eq (a == b), cond (c ? a : b),          *)
(* call (f(arg)).  Statements: assign, decl, return, expr, if, case.       *)
(***************************************************************************)
Id(n)          == [k |-> "id", name |-> n]
Num(v)         == [k |-> "num", v |-> v]
Neg(a)         == [k |-> "neg", a |-> a]
Eq(a, b)       == [k |-> "eq", a |-> a, b |-> b]
Cond(c, a, b)  == [k |-> "cond", c |-> c, a |-> a, b |-> b]
Call(f, a)     == [k |-> "call", f |-> f, arg |-> a]

Assign(l, r)   == [k |-> "assign", lhs |-> l, rhs |-> r]
Decl(v, i)     == [k |-> "decl", var |-> v, init |-> i]
Return(e)      == [k |-> "return", e |-> e]
ExprStmt(e)    == [k |-> "expr", e |-> e]
If(c, s)       == [k |-> "if", cond |-> c, then |-> s]
Case(l, s)     == [k |-> "case", label |-> l, body |-> s]

\* ERR(E) as it appears in source text.
ERR(e) == Call("ERR", e)

\* Second rule of patch.cocci:   - E@p   + ERR(E)
\* applied at every position p the first rule matched inside the nest
\* <+... \($ERRORS\) ...+>: every occurrence of a listed name in the
\* expression, at any depth (function-call arguments included).
RECURSIVE wrap_expr(_)
wrap_expr(e) ==
    CASE e.k = "id"   -> IF e.name \in ERRORS THEN ERR(e) ELSE e
      [] e.k = "num"  -> e
      [] e.k = "neg"  -> Neg(wrap_expr(e.a))
      [] e.k = "eq"   -> Eq(wrap_expr(e.a), wrap_expr(e.b))
      [] e.k = "cond" -> Cond(wrap_expr(e.c), wrap_expr(e.a), wrap_expr(e.b))
      [] e.k = "call" -> Call(e.f, wrap_expr(e.arg))

\* A replacement of every listed name, wherever it stands.
RECURSIVE spatch_blind(_)
spatch_blind(s) ==
    CASE s.k = "assign" -> Assign(s.lhs, wrap_expr(s.rhs))
      [] s.k = "decl"   -> Decl(s.var, wrap_expr(s.init))
      [] s.k = "return" -> Return(wrap_expr(s.e))
      [] s.k = "expr"   -> ExprStmt(wrap_expr(s.e))
      [] s.k = "if"     -> If(wrap_expr(s.cond), spatch_blind(s.then))
      [] s.k = "case"   -> Case(wrap_expr(s.label), spatch_blind(s.body))

\* A fourth pattern that matches expression statements too.
RECURSIVE spatch_calls(_)
spatch_calls(s) ==
    CASE s.k = "assign" -> Assign(s.lhs, wrap_expr(s.rhs))
      [] s.k = "decl"   -> Decl(s.var, wrap_expr(s.init))
      [] s.k = "return" -> Return(wrap_expr(s.e))
      [] s.k = "expr"   -> ExprStmt(wrap_expr(s.e))
      [] s.k = "if"     -> If(s.cond, spatch_calls(s.then))
      [] s.k = "case"   -> Case(s.label, spatch_calls(s.body))

\* First rule of patch.cocci: the three statement patterns
\*     var1 = <+... ...+>;    T var2 = <+... ...+>;    return <+... ...+>;
\* Conditions and case labels are no part of any pattern; the statements
\* they guard are matched on their own.
RECURSIVE spatch(_)
spatch(s) ==
    CASE s.k = "assign" -> Assign(s.lhs, wrap_expr(s.rhs))
      [] s.k = "decl"   -> Decl(s.var, wrap_expr(s.init))
      [] s.k = "return" -> Return(wrap_expr(s.e))
      [] s.k = "expr"   -> s
      [] s.k = "if"     -> If(s.cond, spatch(s.then))
      [] s.k = "case"   -> Case(s.label, spatch(s.body))

(***************************************************************************)
(* Part 2.  The instrumented tree.  Each site is one statement of the      *)
(* tree with the __FILE__ and __LINE__ the preprocessor gives it.          *)
(* Source holds the statements as they stand in the tree, Original what    *)
(* the script was given, Tree what the script makes of that.               *)
(***************************************************************************)
NULL == "NULL"

\* fs/xfs: #define EFSCORRUPTED EUCLEAN (a name no errno header defines)
XfsDefines == { [name |-> EFSCORRUPTED, body |-> EUCLEAN] }

Defines == HeaderDefines \cup XfsDefines

DigitValue(c) ==
    CASE c = "0" -> 0 [] c = "1" -> 1 [] c = "2" -> 2 [] c = "3" -> 3
      [] c = "4" -> 4 [] c = "5" -> 5 [] c = "6" -> 6 [] c = "7" -> 7
      [] c = "8" -> 8 [] c = "9" -> 9

RECURSIVE ParseNat(_)
ParseNat(ds) ==
    IF ds = << >> THEN 0
    ELSE 10 * ParseNat(SubSeq(ds, 1, Len(ds) - 1)) + DigitValue(ds[Len(ds)])

\* The preprocessor's expansion of an error name to its number.
RECURSIVE errno_value(_)
errno_value(name) ==
    LET d == CHOOSE l \in Defines : l.name = name
    IN  IF d.body[1] \in Digits THEN ParseNat(d.body) ELSE errno_value(d.body)

IsErrno(name) == \E l \in Defines : l.name = name /\ l.body # << >>

\* return -ERR(EBUSY);
nci_to_errno ==
    [file |-> "net/nfc/nci/lib.c", line |-> 31,
     stmt |-> Return(Neg(ERR(Id(EBUSY))))]

\* if (sst_acpi == NULL) return -ENOMEM;
sst_acpi_probe_nomem ==
    [file |-> "sound/soc/intel/sst-acpi.c", line |-> 87,
     stmt |-> Return(Neg(Id(ENOMEM)))]

\* if (!id) return -ERR(ENODEV);
sst_acpi_probe_nodev ==
    [file |-> "sound/soc/intel/sst-acpi.c", line |-> 91,
     stmt |-> Return(Neg(ERR(Id(ENODEV))))]

\* if (copy_in_user(dst, src, 4 + 64)) return -EFAULT;
snd_hwdep_dsp_load_compat ==
    [file |-> "sound/core/hwdep_compat.c", line |-> 30,
     stmt |-> Return(Neg(Id(EFAULT)))]

\* if (PTR_ERR(dev->gclk) == -EPROBE_DEFER) return -EPROBE_DEFER;
mchp_i2s_mcc_probe ==
    [file |-> "sound/soc/atmel/mchp-i2s-mcc.c", line |-> 1163,
     stmt |-> Return(Neg(Id(EPROBE_DEFER)))]

\* return ERR_PTR(-EFSCORRUPTED);
xfs_acl_from_disk ==
    [file |-> "fs/xfs/xfs_acl.c", line |-> 173,
     stmt |-> Return(Call("ERR_PTR", Neg(Id(EFSCORRUPTED))))]

\* result = -ERR(ENODEV);
wimax_gnl_doit_state_get ==
    [file |-> "net/wimax/op-state-get.c", line |-> 37,
     stmt |-> Assign(Id(<<"r">>), Neg(ERR(Id(ENODEV))))]

\* reuseport_array_delete_elem, between spin_lock_bh(&reuseport_lock) and
\* spin_unlock_bh(&reuseport_lock):  err = -ERR(ENOENT);
reuseport_array_delete_elem ==
    [file |-> "kernel/bpf/reuseport_array.c", line |-> 88,
     stmt |-> Assign(Id(<<"e","r","r">>), Neg(ERR(Id(ENOENT))))]

\* bpf_fd_reuseport_array_lookup_elem, between rcu_read_lock() and
\* rcu_read_unlock():  err = -ERR(ENOENT);
bpf_fd_reuseport_array_lookup_elem ==
    [file |-> "kernel/bpf/reuseport_array.c", line |-> 199,
     stmt |-> Assign(Id(<<"e","r","r">>), Neg(ERR(Id(ENOENT))))]

\* ethnl_set_channels, before it tests ops->get_channels and
\* ops->set_channels:  ret = -ERR(EOPNOTSUPP);
ethnl_set_channels ==
    [file |-> "net/ethtool/channels.c", line |-> 228,
     stmt |-> Assign(Id(<<"r","e","t">>), Neg(ERR(Id(EOPNOTSUPP))))]

\* xfs_set_acl with an acl, before it tests acl->a_count:
\*     error = -ERR(E2BIG);
xfs_set_acl ==
    [file |-> "fs/xfs/xfs_acl.c", line |-> 372,
     stmt |-> Assign(Id(<<"e","r","r","o","r">>), Neg(ERR(Id(E2BIG))))]

\* The other return statements of nci_to_errno.
nci_return(line, e) ==
    [file |-> "net/nfc/nci/lib.c", line |-> line, stmt |-> Return(e)]

\* __xfs_set_acl, case ACL_TYPE_DEFAULT on an inode that is no directory:
\*     return acl ? -ERR(EACCES) : 0;
\* with the value of the parameter acl, 0 for NULL, in the place of its name.
xfs_set_acl_default(acl) ==
    [file |-> "fs/xfs/xfs_acl.c", line |-> 315,
     stmt |-> Return(Cond(Num(acl), Neg(ERR(Id(EACCES))), Num(0)))]

\* The statements as they stand in the tree.
Source ==
    [s \in {"nci31", "sst87", "sst91", "hwdep30", "mchp1163", "xfs173", "wimax37",
            "reuseport88", "reuseport199", "ethnl228", "xfs372",
            "nci28", "nci34", "nci37", "nci44", "nci48", "nci51", "nci54",
            "nci58", "nci62", "nci66", "nci70",
            "xfs315:acl", "xfs315:NULL"} |->
        CASE s = "nci31"    -> nci_to_errno
          [] s = "sst87"    -> sst_acpi_probe_nomem
          [] s = "sst91"    -> sst_acpi_probe_nodev
          [] s = "hwdep30"  -> snd_hwdep_dsp_load_compat
          [] s = "mchp1163" -> mchp_i2s_mcc_probe
          [] s = "xfs173"   -> xfs_acl_from_disk
          [] s = "wimax37"  -> wimax_gnl_doit_state_get
          [] s = "reuseport88"  -> reuseport_array_delete_elem
          [] s = "reuseport199" -> bpf_fd_reuseport_array_lookup_elem
          [] s = "ethnl228" -> ethnl_set_channels
          [] s = "xfs372"   -> xfs_set_acl
          [] s = "xfs315:acl"  -> xfs_set_acl_default(1)
          [] s = "xfs315:NULL" -> xfs_set_acl_default(0)
          [] s = "nci28"    -> nci_return(28, Num(0))
          [] s = "nci34"    -> nci_return(34, Neg(ERR(Id(EBADMSG))))
          [] s = "nci37"    -> nci_return(37, Neg(ERR(Id(EHOSTDOWN))))
          [] s = "nci44"    -> nci_return(44, Neg(ERR(Id(EPROTO))))
          [] s = "nci48"    -> nci_return(48, Neg(ERR(Id(EBADRQC))))
          [] s = "nci51"    -> nci_return(51, Neg(ERR(Id(EMSGSIZE))))
          [] s = "nci54"    -> nci_return(54, Neg(ERR(Id(EALREADY))))
          [] s = "nci58"    -> nci_return(58, Neg(ERR(Id(ECONNREFUSED))))
          [] s = "nci62"    -> nci_return(62, Neg(ERR(Id(ECOMM))))
          [] s = "nci66"    -> nci_return(66, Neg(ERR(Id(ETIMEDOUT))))
          [] s = "nci70"    -> nci_return(70, Neg(ERR(Id(ENOSYS))))]

Sites == DOMAIN Source

\* A statement without the ERR() around its error names: what the script
\* was given.
RECURSIVE strip_ERR(_)
strip_ERR(e) ==
    CASE e.k = "id"   -> e
      [] e.k = "num"  -> e
      [] e.k = "neg"  -> Neg(strip_ERR(e.a))
      [] e.k = "eq"   -> Eq(strip_ERR(e.a), strip_ERR(e.b))
      [] e.k = "cond" -> Cond(strip_ERR(e.c), strip_ERR(e.a), strip_ERR(e.b))
      [] e.k = "call" -> IF e.f = "ERR" THEN strip_ERR(e.arg)
                                        ELSE Call(e.f, strip_ERR(e.arg))

RECURSIVE unpatched(_)
unpatched(s) ==
    CASE s.k = "assign" -> Assign(s.lhs, strip_ERR(s.rhs))
      [] s.k = "decl"   -> Decl(s.var, strip_ERR(s.init))
      [] s.k = "return" -> Return(strip_ERR(s.e))
      [] s.k = "expr"   -> ExprStmt(strip_ERR(s.e))
      [] s.k = "if"     -> If(strip_ERR(s.cond), unpatched(s.then))
      [] s.k = "case"   -> Case(strip_ERR(s.label), unpatched(s.body))

Original == [s \in Sites |-> [Source[s] EXCEPT !.stmt = unpatched(Source[s].stmt)]]

\* The tree as the script leaves it.
Tree == [s \in Sites |-> [Original[s] EXCEPT !.stmt = spatch(Original[s].stmt)]]

\* The expression a statement evaluates.
Rvalue(s) ==
    CASE s.k = "assign" -> s.rhs
      [] s.k = "decl"   -> s.init
      [] s.k = "return" -> s.e
      [] s.k = "expr"   -> s.e

(***************************************************************************)
(* include/linux/trace_error.h                                             *)
(***************************************************************************)

\* #ifdef CONFIG_TRACE_ERROR ... #define ERR(errno) ... #endif, no #else
ERR_defined(cfg) == cfg

\* A macro that yields what a set_last_err returning its argument, or 0
\* when it did not write, would give.
ERR_expr_written(errno, intask) == IF intask THEN errno ELSE 0

\* The value of ({ set_last_err(__FILE__, __LINE__, errno); errno; }):
\* its last expression, errno.  intask tells whether the call before it
\* wrote the record.
ERR_expr(errno, intask) == errno

\* value(e, intask): the value of expression e.
RECURSIVE value(_, _)
value(e, intask) ==
    CASE e.k = "id"   -> IF IsErrno(e.name) THEN errno_value(e.name) ELSE 0
      [] e.k = "num"  -> e.v
      [] e.k = "neg"  -> 0 - value(e.a, intask)
      [] e.k = "eq"   -> IF value(e.a, intask) = value(e.b, intask) THEN 1 ELSE 0
      [] e.k = "cond" -> IF value(e.c, intask) # 0 THEN value(e.a, intask)
                                                   ELSE value(e.b, intask)
      [] e.k = "call" -> IF e.f = "ERR" THEN ERR_expr(value(e.arg, intask), intask)
                                        ELSE value(e.arg, intask)

\* Both arms of a conditional expression are evaluated.
RECURSIVE err_calls_both_arms(_)
err_calls_both_arms(e) ==
    CASE e.k = "id"   -> << >>
      [] e.k = "num"  -> << >>
      [] e.k = "neg"  -> err_calls_both_arms(e.a)
      [] e.k = "eq"   -> err_calls_both_arms(e.a) \o err_calls_both_arms(e.b)
      [] e.k = "cond" -> err_calls_both_arms(e.c) \o err_calls_both_arms(e.a)
                                                  \o err_calls_both_arms(e.b)
      [] e.k = "call" -> IF e.f = "ERR"
                         THEN err_calls_both_arms(e.arg) \o <<value(e.arg, TRUE)>>
                                                         \o err_calls_both_arms(e.arg)
                         ELSE err_calls_both_arms(e.arg)

\* err_calls(e): the errno arguments of the set_last_err calls that
\* evaluating e makes, in order.  ERR(x) expands to a statement expression
\* that names x twice: once as the call's argument, once as its value.
RECURSIVE err_calls(_)
err_calls(e) ==
    CASE e.k = "id"   -> << >>
      [] e.k = "num"  -> << >>
      [] e.k = "neg"  -> err_calls(e.a)
      [] e.k = "eq"   -> err_calls(e.a) \o err_calls(e.b)
      [] e.k = "cond" -> err_calls(e.c) \o
                         (IF value(e.c, TRUE) # 0 THEN err_calls(e.a) ELSE err_calls(e.b))
      [] e.k = "call" -> IF e.f = "ERR"
                         THEN err_calls(e.arg) \o <<value(e.arg, TRUE)>> \o err_calls(e.arg)
                         ELSE err_calls(e.arg)

\* Does the expression name the macro ERR?
RECURSIVE uses_ERR(_)
uses_ERR(e) ==
    CASE e.k = "id"   -> FALSE
      [] e.k = "num"  -> FALSE
      [] e.k = "neg"  -> uses_ERR(e.a)
      [] e.k = "eq"   -> uses_ERR(e.a) \/ uses_ERR(e.b)
      [] e.k = "cond" -> uses_ERR(e.c) \/ uses_ERR(e.a) \/ uses_ERR(e.b)
      [] e.k = "call" -> e.f = "ERR" \/ uses_ERR(e.arg)

(***************************************************************************)
(* Part 3.  The running kernel.                                            *)
(***************************************************************************)

\* Bounds of the model.
MaxStmts == 3      \* statements executed in one behaviour
MaxDepth == 2      \* frames on one task's stack: the task and nested interrupts
MaxRuns  == 2      \* runs of spatch_errors.sh over one tree

Tasks == {"A", "B"}

\* Contexts a frame runs in.  "bh_off" is a task that holds reuseport_lock,
\* taken with spin_lock_bh, bottom halves disabled; "rcu" is a task inside
\* rcu_read_lock().
TaskCtx == {"task", "bh_off", "rcu"}
IrqCtx  == {"softirq", "hardirq", "nmi"}

\* Only hard interrupts and NMIs are excluded.
in_task_or_softirq(ctx) == ctx \notin {"hardirq", "nmi"}

\* in_task(): no NMI, hard interrupt or softirq is being served.
in_task(ctx) == ctx \in TaskCtx

\* Statements interrupt handlers execute.
\* Statements tasks execute, and the one interrupt handlers execute.
TaskSites == {"nci31", "wimax37", "hwdep30", "sst87", "mchp1163"}
IrqSites == {"nci31"}

\* Statements of sound/soc/intel/sst-acpi.c, which builds as the loadable
\* module snd-soc-sst-acpi.
ModuleSites == {"sst87", "sst91"}

\* The __FILE__ string literals of the module's translation unit: they are
\* part of the module's image.
ModuleStrings == { Tree[s].file : s \in ModuleSites }

VARIABLES
    config,     \* CONFIG_TRACE_ERROR
    build,      \* "none", "ok" or "failed": the result of building the tree
    mod_state,  \* "live" or "gone": the module snd-soc-sst-acpi
    last_err,   \* last_err[t]: the struct last_err embedded in task t
    stack,      \* stack[t]: the frames of task t, the interrupted ones first
    rd,         \* the reader of /proc/<pid>/last_error
    nstmts,     \* statements started so far
    lastCall,   \* lastCall[t]: arguments of t's last completed call in task context
    nrec,       \* nrec[t]: number of such calls
    tree,       \* the statement spatch_errors.sh is run on
    runs,       \* number of runs over tree
    first       \* tree after the first run

vars == <<config, build, mod_state, last_err, stack, rd, nstmts, lastCall, nrec, tree, runs, first>>

kvars == <<config, build, mod_state>>
pvars == <<tree, runs, first>>

\* A zero-initialised struct last_err.
ZeroErr == [file |-> NULL, line |-> 0, errno |-> 0]

Frame(ctx) ==
    [ctx |-> ctx, pc |-> "idle", site |-> "none", todo |-> << >>,
     ptr |-> NULL, called |-> 0, ret |-> 0, before |-> ZeroErr, arg |-> NULL]

IdleRd ==
    [pc |-> "idle", target |-> NULL, snap |-> ZeroErr,
     old |-> ZeroErr, new |-> ZeroErr, ncalls |-> 0, stores |-> 0, n |-> 0]

Top(t) == stack[t][Len(stack[t])]

SetTop(t, f) == [stack EXCEPT ![t][Len(stack[t])] = f]

\* t is between the entry of a writing set_last_err call and its last store.
InCall(f) == f.pc \in {"file", "line", "errno"}

\* The arguments of the set_last_err call frame f is making:
\* __FILE__, __LINE__ and the value of the macro's argument.
Args(f) == [file |-> Tree[f.site].file, line |-> Tree[f.site].line, errno |-> Head(f.todo)]

Init ==
    /\ config \in BOOLEAN
    /\ build = "none"
    /\ mod_state = "live"
    /\ last_err = [t \in Tasks |-> ZeroErr]
    /\ stack = [t \in Tasks |-> <<Frame("task")>>]
    /\ rd = IdleRd
    /\ nstmts = 0
    /\ lastCall = [t \in Tasks |-> ZeroErr]
    /\ nrec = [t \in Tasks |-> 0]
    /\ tree = Return(Num(0))
    /\ runs = 0
    /\ first = Return(Num(0))

\* Building the tree: a translation unit that names ERR compiles only when
\* the header defines it.
Kbuild ==
    /\ build = "none"
    /\ build' = IF \A s \in Sites : uses_ERR(Rvalue(Tree[s].stmt)) => ERR_defined(config)
                THEN "ok" ELSE "failed"
    /\ UNCHANGED <<config, mod_state, last_err, stack, rd, nstmts, lastCall, nrec, pvars>>

\* Task t, or the interrupt handler on top of it, begins the statement at
\* site s.  A statement that makes no set_last_err call is complete at once.
Begin(f, s) ==
    LET e == Rvalue(Tree[s].stmt)
        calls == err_calls(e)
    IN  [f EXCEPT !.site = s, !.todo = calls, !.called = 0, !.ptr = NULL,
                  !.pc = IF calls = << >> THEN "done" ELSE "call",
                  !.ret = IF calls = << >> THEN value(e, in_task(f.ctx)) ELSE 0]

ExecStmt(t, s) ==
    /\ build = "ok"
    /\ nstmts < MaxStmts
    /\ Top(t).pc \in {"idle", "done"}
    /\ Top(t).ctx \in TaskCtx
    /\ s \in ModuleSites => mod_state = "live"
    /\ stack' = SetTop(t, Begin(Top(t), s))
    /\ nstmts' = nstmts + 1
    /\ UNCHANGED <<kvars, last_err, rd, lastCall, nrec, pvars>>

\* An interrupt arrives at task t, at any point of what t is doing; its
\* handler executes the statement at site s.
Interrupt(t, ctx, s) ==
    /\ build = "ok"
    /\ nstmts < MaxStmts
    /\ Len(stack[t]) < MaxDepth
    /\ ctx = "softirq" => Top(t).ctx \notin {"softirq", "bh_off"}
    /\ stack' = [stack EXCEPT ![t] = Append(@, Begin(Frame(ctx), s))]
    /\ nstmts' = nstmts + 1
    /\ UNCHANGED <<kvars, last_err, rd, lastCall, nrec, pvars>>

IrqReturn(t) ==
    /\ Len(stack[t]) > 1
    /\ Top(t).pc = "done"
    /\ stack' = [stack EXCEPT ![t] = SubSeq(@, 1, Len(@) - 1)]
    /\ UNCHANGED <<kvars, last_err, rd, nstmts, lastCall, nrec, pvars>>

\* No check of the context.
skip_never(ctx) == FALSE

\* Only an NMI handler is kept from writing.
skip_in_nmi(ctx) == ctx = "nmi"

\* if (!in_task()) return;
skip_write(ctx) == ~in_task(ctx)

\* One record shared by all tasks.
shared_last_err(t) == "A"

\* &current->last_err, evaluated by the frame running on task t's stack.
current_last_err(t) == t

\* The reader's bookkeeping when its target enters a writing call.
RdEnter(t, args) ==
    IF rd.pc \in {"file", "line", "errno"} /\ rd.target = t
    THEN [rd EXCEPT !.ncalls = @ + 1, !.new = IF rd.ncalls = 0 THEN args ELSE @]
    ELSE rd

RdStore(t) ==
    IF rd.pc \in {"file", "line", "errno"} /\ rd.target = t
    THEN [rd EXCEPT !.stores = @ + 1]
    ELSE rd

\* reuseport_lock is held by no task.
LockFree(l) == \A u \in Tasks : stack[u][1].ctx # "bh_off"

\* A recorder that serialises its writers with reuseport_lock.
set_last_err_locks_reuseport == {"reuseport_lock"}

\* The locks set_last_err acquires before it writes: none.
set_last_err_locks == {}

\* set_last_err(__FILE__, __LINE__, errno) up to its first store.
set_last_err(t) ==
    /\ Top(t).pc = "call"
    /\ \A l \in set_last_err_locks : LockFree(l)
    /\ LET f == Top(t)
           g == [f EXCEPT !.called = @ + 1]
       IN  IF skip_write(f.ctx)
           THEN /\ stack' = SetTop(t, [g EXCEPT !.pc = "yield"])
                /\ rd' = rd
           ELSE /\ stack' = SetTop(t, [g EXCEPT !.pc = "file", !.ptr = current_last_err(t)])
                /\ rd' = RdEnter(current_last_err(t), Args(g))
    /\ UNCHANGED <<kvars, last_err, nstmts, lastCall, nrec, pvars>>

\* The file is left as it was.
store_file_skipped(rec, file) == rec

\* last_err->file = file;
store_file(rec, file) == [rec EXCEPT !.file = file]

\* A store that is torn: only the low four bits of the line are written.
store_line_torn(rec, line) ==
    [rec EXCEPT !.line = (rec.line \div 16) * 16 + (line % 16)]

\* The line is left as it was.
store_line_skipped(rec, line) == rec

\* last_err->line = line;
store_line(rec, line) == [rec EXCEPT !.line = line]

\* A recorder that drops the excluded codes and everything that is no
\* positive error number.
store_errno_filtered(rec, errno) ==
    IF errno <= 0 \/ errno \in {12, 14} THEN rec ELSE [rec EXCEPT !.errno = errno]

\* The negative return value is stored instead of the code.
store_errno_negated(rec, errno) == [rec EXCEPT !.errno = 0 - errno]

\* last_err->errno = errno;
store_errno(rec, errno) == [rec EXCEPT !.errno = errno]

StoreFile(t) ==
    /\ Top(t).pc = "file"
    /\ LET f == Top(t)
       IN  /\ last_err' = [last_err EXCEPT ![f.ptr] = store_file(@, Args(f).file)]
           /\ stack' = SetTop(t, [f EXCEPT !.pc = "line"])
           /\ rd' = RdStore(f.ptr)
    /\ UNCHANGED <<kvars, nstmts, lastCall, nrec, pvars>>

StoreLine(t) ==
    /\ Top(t).pc = "line"
    /\ LET f == Top(t)
       IN  /\ last_err' = [last_err EXCEPT ![f.ptr] = store_line(@, Args(f).line)]
           /\ stack' = SetTop(t, [f EXCEPT !.pc = "errno"])
           /\ rd' = RdStore(f.ptr)
    /\ UNCHANGED <<kvars, nstmts, lastCall, nrec, pvars>>

StoreErrno(t) ==
    /\ Top(t).pc = "errno"
    /\ LET f == Top(t)
       IN  /\ last_err' = [last_err EXCEPT ![f.ptr] = store_errno(@, Args(f).errno)]
           /\ stack' = SetTop(t, [f EXCEPT !.pc = "yield"])
           /\ rd' = RdStore(f.ptr)
           /\ lastCall' = [lastCall EXCEPT ![t] = Args(f)]
           /\ nrec' = [nrec EXCEPT ![t] = @ + 1]
    /\ UNCHANGED <<kvars, nstmts, pvars>>

\* The rest of the statement after a set_last_err call returned: the next
\* call the statement makes, or its value.
Yield(t) ==
    /\ Top(t).pc = "yield"
    /\ LET f == Top(t)
           rest == Tail(f.todo)
       IN  stack' = SetTop(t,
               IF rest = << >>
               THEN [f EXCEPT !.todo = rest, !.pc = "done",
                              !.ret = value(Rvalue(Tree[f.site].stmt), in_task(f.ctx))]
               ELSE [f EXCEPT !.todo = rest, !.pc = "call"])
    /\ UNCHANGED <<kvars, last_err, rd, nstmts, lastCall, nrec, pvars>>

\* The inspection interface: a task other than t reads t's record, one
\* field at a time.
ReadStart(t) ==
    /\ build = "ok"
    /\ rd.pc = "idle"
    /\ LET f == stack[t][1]
       IN  rd' = [IdleRd EXCEPT !.pc = "file", !.target = t,
                                !.old = lastCall[t],
                                !.new = IF InCall(f) THEN Args(f) ELSE ZeroErr,
                                !.ncalls = IF InCall(f) THEN 1 ELSE 0,
                                !.stores = IF f.pc = "line" THEN 1
                                           ELSE IF f.pc = "errno" THEN 2 ELSE 0,
                                !.n = nrec[t]]
    /\ UNCHANGED <<kvars, last_err, stack, nstmts, lastCall, nrec, pvars>>

ReadFile ==
    /\ rd.pc = "file"
    /\ rd' = [rd EXCEPT !.snap.file = last_err[rd.target].file, !.pc = "line"]
    /\ UNCHANGED <<kvars, last_err, stack, nstmts, lastCall, nrec, pvars>>

ReadLine ==
    /\ rd.pc = "line"
    /\ rd' = [rd EXCEPT !.snap.line = last_err[rd.target].line, !.pc = "errno"]
    /\ UNCHANGED <<kvars, last_err, stack, nstmts, lastCall, nrec, pvars>>

ReadErrno ==
    /\ rd.pc = "errno"
    /\ rd' = [rd EXCEPT !.snap.errno = last_err[rd.target].errno, !.pc = "done"]
    /\ UNCHANGED <<kvars, last_err, stack, nstmts, lastCall, nrec, pvars>>

\* The child starts with a copy of its parent's record.
new_last_err_copied(parent) == parent

\* The struct last_err of a task that is being created: zero-initialised,
\* whatever the record of the task that creates it holds.
new_last_err(parent) == ZeroErr

\* The frame of a task that has not been created yet.
Unborn == [Frame("task") EXCEPT !.pc = "unborn"]

Created(t) == stack[t][1].pc # "unborn"

\* Task p, between two statements, creates task c.
Fork(p, c) ==
    /\ build = "ok"
    /\ Created(p) /\ ~Created(c)
    /\ Len(stack[p]) = 1
    /\ Top(p).pc \in {"idle", "done"}
    /\ stack' = [stack EXCEPT ![c] = <<Frame("task")>>]
    /\ last_err' = [last_err EXCEPT ![c] = new_last_err(last_err[p])]
    /\ UNCHANGED <<kvars, rd, nstmts, lastCall, nrec, pvars>>

\* The module's probe function, called in the task that binds a device.
Probe(t) == \E s \in ModuleSites : ExecStmt(t, s)

\* The module is unloaded once no task executes its code: its image, the
\* string literals included, is freed.
Rmmod ==
    /\ mod_state = "live"
    /\ \A t \in Tasks : \A i \in 1..Len(stack[t]) :
          stack[t][i].site \in ModuleSites => stack[t][i].pc = "done"
    /\ mod_state' = "gone"
    /\ UNCHANGED <<config, build, last_err, stack, rd, nstmts, lastCall, nrec, pvars>>

\* spin_lock_bh(&reuseport_lock): the task spins until the lock is free.
spin_lock_bh(t) ==
    /\ build = "ok"
    /\ Len(stack[t]) = 1
    /\ Top(t).ctx = "task" /\ Top(t).pc \in {"idle", "done"}
    /\ LockFree("reuseport_lock")
    /\ stack' = SetTop(t, [Top(t) EXCEPT !.ctx = "bh_off"])
    /\ UNCHANGED <<kvars, last_err, rd, nstmts, lastCall, nrec, pvars>>

\* spin_unlock_bh(&reuseport_lock)
spin_unlock_bh(t) ==
    /\ Len(stack[t]) = 1
    /\ Top(t).ctx = "bh_off" /\ Top(t).pc \in {"idle", "done"}
    /\ stack' = SetTop(t, [Top(t) EXCEPT !.ctx = "task"])
    /\ UNCHANGED <<kvars, last_err, rd, nstmts, lastCall, nrec, pvars>>

rcu_read_lock(t) ==
    /\ build = "ok"
    /\ Len(stack[t]) = 1
    /\ Top(t).ctx = "task" /\ Top(t).pc \in {"idle", "done"}
    /\ stack' = SetTop(t, [Top(t) EXCEPT !.ctx = "rcu"])
    /\ UNCHANGED <<kvars, last_err, rd, nstmts, lastCall, nrec, pvars>>

rcu_read_unlock(t) ==
    /\ Len(stack[t]) = 1
    /\ Top(t).ctx = "rcu" /\ Top(t).pc \in {"idle", "done"}
    /\ stack' = SetTop(t, [Top(t) EXCEPT !.ctx = "task"])
    /\ UNCHANGED <<kvars, last_err, rd, nstmts, lastCall, nrec, pvars>>

\* The else branch of reuseport_array_delete_elem, under reuseport_lock.
DeleteElem(t) == Top(t).ctx = "bh_off" /\ ExecStmt(t, "reuseport88")

\* The else branch of bpf_fd_reuseport_array_lookup_elem, under RCU.
LookupElem(t) == Top(t).ctx = "rcu" /\ ExecStmt(t, "reuseport199")

\* The steps of one set_last_err call.
CallStep(t) ==
    \/ set_last_err(t)
    \/ StoreFile(t)
    \/ StoreLine(t)
    \/ StoreErrno(t)

\* Values of the int parameter errno: ENOMEM, EFAULT, zero and negative ones.
Codes == {0 - 14, 0, 12, 14}

DirectSites == {"nci31", "wimax37"}

\* Task t calls set_last_err(__FILE__, __LINE__, c) at the place of site s
\* with any int c, as every holder of the exported symbol can.
DirectCall(t, s, c) ==
    /\ build = "ok"
    /\ nstmts < MaxStmts
    /\ Len(stack[t]) = 1
    /\ Top(t).pc \in {"idle", "done"}
    /\ stack' = SetTop(t, [Top(t) EXCEPT !.site = s, !.todo = <<c>>, !.called = 0,
                                         !.ptr = NULL, !.pc = "call", !.ret = 0])
    /\ nstmts' = nstmts + 1
    /\ UNCHANGED <<kvars, last_err, rd, lastCall, nrec, pvars>>

\* The statement is complete when the call has returned.
DirectReturn(t) ==
    /\ Top(t).pc = "yield"
    /\ stack' = SetTop(t, [Top(t) EXCEPT !.todo = << >>, !.pc = "done"])
    /\ UNCHANGED <<kvars, last_err, rd, nstmts, lastCall, nrec, pvars>>

\* Functions that assign their error code before the test that decides
\* whether they fail.
FnSites == {"ethnl228", "xfs372"}

\* Task t enters the function of site s and executes it up to the
\* assignment; before is the task's record at the entry.
Enter(t, s) ==
    /\ build = "ok"
    /\ nstmts < MaxStmts
    /\ Len(stack[t]) = 1
    /\ Top(t).pc \in {"idle", "returned"}
    /\ stack' = SetTop(t, [Begin(Top(t), s) EXCEPT !.before = last_err[t]])
    /\ nstmts' = nstmts + 1
    /\ UNCHANGED <<kvars, last_err, rd, lastCall, nrec, pvars>>

\* The rest of the function: the test fails and the function returns the
\* code it assigned, or it passes, the variable is assigned the result of
\* the operation, and the function returns 0.
FnReturn(t, ok) ==
    /\ Top(t).pc = "done"
    /\ Top(t).site \in FnSites
    /\ stack' = SetTop(t, [Top(t) EXCEPT !.pc = "returned",
                                         !.ret = IF ok THEN 0 ELSE @])
    /\ UNCHANGED <<kvars, last_err, rd, nstmts, lastCall, nrec, pvars>>

\* The status codes nci_to_errno has a case label for, and one value of
\* __u8 that it has none for.
NciLabels ==
    {"NCI_STATUS_OK", "NCI_STATUS_REJECTED", "NCI_STATUS_RF_FRAME_CORRUPTED",
     "NCI_STATUS_NOT_INITIALIZED", "NCI_STATUS_SYNTAX_ERROR",
     "NCI_STATUS_SEMANTIC_ERROR", "NCI_STATUS_INVALID_PARAM",
     "NCI_STATUS_RF_PROTOCOL_ERROR", "NCI_STATUS_NFCEE_PROTOCOL_ERROR",
     "NCI_STATUS_UNKNOWN_GID", "NCI_STATUS_UNKNOWN_OID",
     "NCI_STATUS_MESSAGE_SIZE_EXCEEDED", "NCI_STATUS_DISCOVERY_ALREADY_STARTED",
     "NCI_STATUS_DISCOVERY_TARGET_ACTIVATION_FAILED",
     "NCI_STATUS_NFCEE_INTERFACE_ACTIVATION_FAILED",
     "NCI_STATUS_RF_TRANSMISSION_ERROR", "NCI_STATUS_NFCEE_TRANSMISSION_ERROR",
     "NCI_STATUS_RF_TIMEOUT_ERROR", "NCI_STATUS_NFCEE_TIMEOUT_ERROR",
     "NCI_STATUS_FAILED"}

NciCodes == NciLabels \cup {"unlisted"}

\* A switch whose default returns 0.
nci_switch_default_ok(code) ==
    IF code \in {"NCI_STATUS_REJECTED"} THEN "nci31" ELSE "nci28"

\* switch (code): the return statement control reaches.
nci_switch(code) ==
    CASE code = "NCI_STATUS_OK" -> "nci28"
      [] code = "NCI_STATUS_REJECTED" -> "nci31"
      [] code = "NCI_STATUS_RF_FRAME_CORRUPTED" -> "nci34"
      [] code = "NCI_STATUS_NOT_INITIALIZED" -> "nci37"
      [] code \in {"NCI_STATUS_SYNTAX_ERROR", "NCI_STATUS_SEMANTIC_ERROR",
                   "NCI_STATUS_INVALID_PARAM", "NCI_STATUS_RF_PROTOCOL_ERROR",
                   "NCI_STATUS_NFCEE_PROTOCOL_ERROR"} -> "nci44"
      [] code \in {"NCI_STATUS_UNKNOWN_GID", "NCI_STATUS_UNKNOWN_OID"} -> "nci48"
      [] code = "NCI_STATUS_MESSAGE_SIZE_EXCEEDED" -> "nci51"
      [] code = "NCI_STATUS_DISCOVERY_ALREADY_STARTED" -> "nci54"
      [] code \in {"NCI_STATUS_DISCOVERY_TARGET_ACTIVATION_FAILED",
                   "NCI_STATUS_NFCEE_INTERFACE_ACTIVATION_FAILED"} -> "nci58"
      [] code \in {"NCI_STATUS_RF_TRANSMISSION_ERROR",
                   "NCI_STATUS_NFCEE_TRANSMISSION_ERROR"} -> "nci62"
      [] code \in {"NCI_STATUS_RF_TIMEOUT_ERROR",
                   "NCI_STATUS_NFCEE_TIMEOUT_ERROR"} -> "nci66"
      [] OTHER -> "nci70"

\* Task t calls nci_to_errno(code); before is its record at the entry.
NciCall(t, code) ==
    /\ build = "ok"
    /\ nstmts < MaxStmts
    /\ Len(stack[t]) = 1
    /\ Top(t).pc \in {"idle", "done"}
    /\ stack' = SetTop(t, [Begin(Top(t), nci_switch(code))
                              EXCEPT !.before = last_err[t], !.arg = code])
    /\ nstmts' = nstmts + 1
    /\ UNCHANGED <<kvars, last_err, rd, lastCall, nrec, pvars>>

\* Task t calls __xfs_set_acl(inode, acl, ACL_TYPE_DEFAULT) on an inode
\* that is no directory; acl is NULL or a pointer to an ACL.
XfsSetAclDefault(t, acl) ==
    /\ build = "ok"
    /\ nstmts < MaxStmts
    /\ Len(stack[t]) = 1
    /\ Top(t).pc \in {"idle", "done"}
    /\ stack' = SetTop(t, [Begin(Top(t), IF acl = NULL THEN "xfs315:NULL" ELSE "xfs315:acl")
                              EXCEPT !.before = last_err[t], !.arg = acl])
    /\ nstmts' = nstmts + 1
    /\ UNCHANGED <<kvars, last_err, rd, lastCall, nrec, pvars>>

\* The steps of one task and of the interrupt handlers on its stack.
TaskStep(t) ==
    \/ \E s \in TaskSites : ExecStmt(t, s)
    \/ set_last_err(t)
    \/ StoreFile(t)
    \/ StoreLine(t)
    \/ StoreErrno(t)
    \/ Yield(t)

IrqStep(t) ==
    \/ \E ctx \in IrqCtx, s \in IrqSites : Interrupt(t, ctx, s)
    \/ IrqReturn(t)

ReadStep ==
    \/ \E t \in Tasks : ReadStart(t)
    \/ ReadFile
    \/ ReadLine
    \/ ReadErrno

\* Tasks and interrupts.
Next ==
    \/ Kbuild
    \/ \E t \in Tasks : TaskStep(t)
    \/ \E t \in Tasks : IrqStep(t)

Spec == Init /\ [][Next]_vars

\* Tasks and a reader of /proc/<pid>/last_error.  Interrupt handlers, which
\* write no record, are left to Spec.
NextRead ==
    \/ Kbuild
    \/ \E t \in Tasks : TaskStep(t)
    \/ ReadStep

SpecRead == Init /\ [][NextRead]_vars

\* Task A and a task B that A creates while it runs.
InitFork ==
    /\ config \in BOOLEAN
    /\ build = "none"
    /\ mod_state = "live"
    /\ last_err = [t \in Tasks |-> ZeroErr]
    /\ stack = [t \in Tasks |-> IF t = "A" THEN <<Frame("task")>> ELSE <<Unborn>>]
    /\ rd = IdleRd
    /\ nstmts = 0
    /\ lastCall = [t \in Tasks |-> ZeroErr]
    /\ nrec = [t \in Tasks |-> 0]
    /\ tree = Return(Num(0))
    /\ runs = 0
    /\ first = Return(Num(0))

NextFork ==
    \/ Kbuild
    \/ \E t \in Tasks : TaskStep(t)
    \/ \E p \in Tasks, c \in Tasks : Fork(p, c)

SpecFork == InitFork /\ [][NextFork]_vars

\* Tasks, with the module snd-soc-sst-acpi probed and unloaded.
NextModule ==
    \/ Kbuild
    \/ \E t \in Tasks : TaskStep(t)
    \/ \E t \in Tasks : Probe(t)
    \/ Rmmod

SpecModule == Init /\ [][NextModule]_vars

\* Tasks that delete from and look up in a reuseport array.  A task that
\* has entered set_last_err goes on executing it; nothing is assumed about
\* when a task takes or releases a lock.
NextLock ==
    \/ Kbuild
    \/ \E t \in Tasks : spin_lock_bh(t)
    \/ \E t \in Tasks : spin_unlock_bh(t)
    \/ \E t \in Tasks : rcu_read_lock(t)
    \/ \E t \in Tasks : rcu_read_unlock(t)
    \/ \E t \in Tasks : DeleteElem(t)
    \/ \E t \in Tasks : LookupElem(t)
    \/ \E t \in Tasks : CallStep(t)
    \/ \E t \in Tasks : Yield(t)

SpecLock == Init /\ [][NextLock]_vars /\ \A t \in Tasks : WF_vars(CallStep(t))

\* Tasks that call ethnl_set_channels and xfs_set_acl.
NextFn ==
    \/ Kbuild
    \/ \E t \in Tasks, s \in FnSites : Enter(t, s)
    \/ \E t \in Tasks : CallStep(t)
    \/ \E t \in Tasks : Yield(t)
    \/ \E t \in Tasks, ok \in BOOLEAN : FnReturn(t, ok)

SpecFn == Init /\ [][NextFn]_vars

\* A task that calls nci_to_errno with every status code, in any order.
NciTasks == {"A"}

NextNci ==
    \/ Kbuild
    \/ \E t \in NciTasks, code \in NciCodes : NciCall(t, code)
    \/ \E t \in Tasks : CallStep(t)
    \/ \E t \in Tasks : Yield(t)

SpecNci == Init /\ [][NextNci]_vars

\* Tasks that set default ACLs on files, and call nci_to_errno in between.
NextAcl ==
    \/ Kbuild
    \/ \E t \in Tasks, acl \in {NULL, "acl"} : XfsSetAclDefault(t, acl)
    \/ \E t \in Tasks : NciCall(t, "NCI_STATUS_REJECTED")
    \/ \E t \in Tasks : CallStep(t)
    \/ \E t \in Tasks : Yield(t)

SpecAcl == Init /\ [][NextAcl]_vars

\* Tasks that call set_last_err with arbitrary codes.
NextDirect ==
    \/ Kbuild
    \/ \E t \in Tasks, s \in DirectSites, c \in Codes : DirectCall(t, s, c)
    \/ \E t \in Tasks : CallStep(t)
    \/ \E t \in Tasks : DirectReturn(t)

SpecDirect == Init /\ [][NextDirect]_vars

(***************************************************************************)
(* Part 4.  Running spatch_errors.sh over a statement.                     *)
(***************************************************************************)
Names == {EBUSY, ENOMEM, EFAULT, EPROBE_DEFER, EFSCORRUPTED, EWOULDBLOCK}

\* Expressions a statement of the tree holds around an error name.
Exprs(n) ==
    { Neg(Id(n)),
      Call("ERR_PTR", Neg(Id(n))),
      Cond(Id(<<"a">>), Neg(Id(n)), Num(0)),
      Eq(Id(<<"r">>), Neg(Id(n))) }

Rvalues == UNION { Exprs(n) : n \in Names }

Simple ==
    { Return(e) : e \in Rvalues } \cup
    { Assign(Id(<<"r">>), e) : e \in Rvalues } \cup
    { Decl(<<"r">>, e) : e \in Rvalues } \cup
    { ExprStmt(Call("f", e)) : e \in Rvalues }

Guarded ==
    { If(Eq(Id(<<"r">>), Neg(Id(n))), Return(Neg(Id(m)))) : n \in Names, m \in Names } \cup
    { Case(Neg(Id(n)), Assign(Id(<<"r">>), Neg(Id(m)))) : n \in Names, m \in Names }

\* The statements the script is run on: unpatched ones, and the statements
\* of the tree, which it has patched already.
InputStmts == Simple \cup Guarded \cup { Source[s].stmt : s \in Sites }

InitPatch ==
    /\ config = TRUE
    /\ build = "none"
    /\ mod_state = "live"
    /\ last_err = [t \in Tasks |-> ZeroErr]
    /\ stack = [t \in Tasks |-> <<Frame("task")>>]
    /\ rd = IdleRd
    /\ nstmts = 0
    /\ lastCall = [t \in Tasks |-> ZeroErr]
    /\ nrec = [t \in Tasks |-> 0]
    /\ tree \in InputStmts
    /\ runs = 0
    /\ first = tree

\* exec spatch --sp-file /tmp/patch.cocci --in-place
RunSpatch ==
    /\ runs < MaxRuns
    /\ tree' = spatch(tree)
    /\ runs' = runs + 1
    /\ first' = IF runs = 0 THEN spatch(tree) ELSE first
    /\ UNCHANGED <<kvars, last_err, stack, rd, nstmts, lastCall, nrec>>

NextPatch == RunSpatch

SpecPatch == InitPatch /\ [][NextPatch]_vars

\* The script's output for the modelled sites is the tree.
TreeIsSource == \A s \in Sites : Tree[s] = Source[s]

TypeOK ==
    /\ build \in {"none", "ok", "failed"}
    /\ \A t \in Tasks : Len(stack[t]) \in 1..MaxDepth
    /\ nstmts \in 0..MaxStmts
    /\ runs \in 0..MaxRuns

(***************************************************************************)
(* Part 5.  Properties.                                                    *)
(***************************************************************************)

\* The names of an expression.
RECURSIVE names_of(_)
names_of(e) ==
    CASE e.k = "id"   -> {e.name}
      [] e.k = "num"  -> {}
      [] e.k = "neg"  -> names_of(e.a)
      [] e.k = "eq"   -> names_of(e.a) \cup names_of(e.b)
      [] e.k = "cond" -> names_of(e.c) \cup names_of(e.a) \cup names_of(e.b)
      [] e.k = "call" -> names_of(e.arg)

\* The value the statement at site s has without any ERR() in it.
BareValue(s) == value(Rvalue(Original[s].stmt), TRUE)

Frames(t) == { stack[t][i] : i \in 1..Len(stack[t]) }

\* C1 (Transparency): a statement that has been executed, in a task or in an
\* interrupt handler, produced the value the same statement produces
\* without ERR(): -ERR(E) is -E.
Transparency ==
    \A t \in Tasks : \A f \in Frames(t) :
        f.pc = "done" => f.ret = BareValue(f.site)

\* An interrupt handler and a task have both evaluated an ERR().
TransparencyWitness ==
    \E t \in Tasks :
        /\ Len(stack[t]) = 2
        /\ Top(t).pc = "done" /\ Top(t).called = 1 /\ Top(t).ret = 0 - 16
        /\ stack[t][1].pc = "done" /\ stack[t][1].called = 1 /\ stack[t][1].ret = 0 - 19

\* C2 (Last-write-wins): a read of T's record that began after T's Nth
\* call (N >= 1) completed and ended before T's next call began returns
\* the arguments of the Nth call.
LastWriteWins ==
    (rd.pc = "done" /\ rd.ncalls = 0 /\ rd.n >= 1) => rd.snap = rd.old

\* A read after the second call of a task.
LastWriteWinsWitness ==
    /\ rd.pc = "done" /\ rd.ncalls = 0 /\ rd.n >= 2
    /\ rd.snap = lastCall[rd.target]
    /\ rd.snap.errno = 16

\* A step of set_last_err made by the frame on top of a's stack.
SetLastErrStep(a) ==
    /\ Top(a).pc \in {"call", "file", "line", "errno"}
    /\ Len(stack'[a]) = Len(stack[a])
    /\ stack'[a] # stack[a]

\* C3 (Task isolation): a step of a set_last_err call of task A changes
\* nothing but A's record and A's own frame.
TaskIsolation ==
    [][\A a \in Tasks : SetLastErrStep(a) =>
          /\ \A b \in Tasks \ {a} : last_err'[b] = last_err[b] /\ stack'[b] = stack[b]
          /\ UNCHANGED <<config, build, nstmts, pvars>>]_vars

\* Both tasks hold a record of their own, B has just written its errno.
TaskIsolationWitness ==
    /\ last_err["A"].errno = 16
    /\ last_err["B"].errno = 19
    /\ Top("B").pc = "yield"

\* C4 (No-context safety): a step of an interrupt handler changes no
\* task's record, and the statement it executed has the value it has
\* without ERR().
NoContextSafety ==
    [][\A t \in Tasks : (Top(t).ctx \in IrqCtx /\ stack'[t] # stack[t]) =>
          /\ last_err' = last_err
          /\ (Len(stack'[t]) = Len(stack[t]) /\ Top(t)'.pc = "done")
                => Top(t)'.ret = BareValue(Top(t).site)]_vars

\* A handler evaluated ERR() after it interrupted the task between the
\* store of file and the store of errno.
NoContextSafetyWitness ==
    \E t \in Tasks :
        /\ Len(stack[t]) = 2
        /\ stack[t][1].pc \in {"line", "errno"}
        /\ Top(t).ctx \in IrqCtx /\ Top(t).pc = "done" /\ Top(t).called = 1
        /\ last_err[t].file = "net/wimax/op-state-get.c"
        /\ last_err[t].errno = 0

\* C5 as stated: a read concurrent with one call returns the complete old
\* or the complete new triple.
NeverMixed ==
    (rd.pc = "done" /\ rd.ncalls = 1) => rd.snap \in {rd.old, rd.new}

\* C5 (amended): a read concurrent with one call returns, field by field,
\* the old or the new value, and the complete old triple when the read
\* ended before the call's first store.
PerFieldOldOrNew ==
    (rd.pc = "done" /\ rd.ncalls = 1) =>
        /\ rd.snap.file \in {rd.old.file, rd.new.file}
        /\ rd.snap.line \in {rd.old.line, rd.new.line}
        /\ rd.snap.errno \in {rd.old.errno, rd.new.errno}
        /\ rd.stores = 0 => rd.snap = rd.old

\* A read that returned the new file with the old line and errno of an
\* earlier record.
PerFieldWitness ==
    /\ rd.pc = "done" /\ rd.ncalls = 1
    /\ rd.old.errno = 16 /\ rd.new.errno = 19
    /\ rd.snap.file = rd.new.file /\ rd.snap.line = rd.old.line
    /\ rd.snap.errno = rd.old.errno

\* The codes the script leaves alone.
Excluded == {ENOMEM, EFAULT}

\* The statement of the site uses an error name of set N as a value that is
\* assigned, initialises or is returned.
UsesAsRvalue(s, N) ==
    /\ Original[s].stmt.k \in {"assign", "decl", "return"}
    /\ names_of(Rvalue(Original[s].stmt)) \cap N # {}

\* C6 (Exclusion): a statement that returns, assigns or initialises with
\* ENOMEM or EFAULT completes in the step that begins it, with no
\* set_last_err call and every record as it was.
Exclusion ==
    [][\A t \in Tasks :
          (/\ stack'[t] # stack[t]
           /\ Top(t)'.pc = "done"
           /\ UsesAsRvalue(Top(t)'.site, Excluded)) =>
              /\ Top(t)'.called = 0
              /\ last_err' = last_err
              /\ Top(t).pc \in {"idle", "done"}]_vars

\* snd_hwdep_dsp_load_compat returned -EFAULT in a task whose record was
\* written before.
ExclusionWitness ==
    \E t \in Tasks :
        /\ Top(t).pc = "done" /\ Top(t).site = "hwdep30" /\ Top(t).ret = 0 - 14
        /\ last_err[t].errno = 16

\* The kernel's error constants other than the excluded ones.
NonExcluded == { l.name : l \in { d \in Defines : d.body # << >> } } \ Excluded

\* C7 (Coverage) as stated: a statement that used a non-excluded error
\* constant as an rvalue has called set_last_err.
Coverage ==
    \A t \in Tasks : \A f \in Frames(t) :
        (f.pc = "done" /\ UsesAsRvalue(f.site, NonExcluded)) => f.called >= 1

\* An if condition or a case label of the statement names ERR.
RECURSIVE discriminant_uses_ERR(_)
discriminant_uses_ERR(s) ==
    CASE s.k = "if"   -> uses_ERR(s.cond) \/ discriminant_uses_ERR(s.then)
      [] s.k = "case" -> uses_ERR(s.label) \/ discriminant_uses_ERR(s.body)
      [] OTHER        -> FALSE

\* C8 (Compile-time-constant safety): no run of the script puts ERR() in
\* the condition of an if or in a case label.
ConstantSafety == ~discriminant_uses_ERR(tree)

\* The script wrapped the statement a case label guards, and the label
\* names an error of the list too.
ConstantSafetyWitness ==
    /\ runs >= 1
    /\ tree.k = "case"
    /\ names_of(tree.label) \cap ERRORS # {}
    /\ uses_ERR(Rvalue(tree.body))

\* C9 (Idempotent instrumentation) as stated: a second run changes nothing.
Idempotent == runs >= 2 => tree = first

\* C10 (Facility disabled) as stated: with CONFIG_TRACE_ERROR unset the
\* instrumented tree still builds, ERR(c) being c.
DisabledPassThrough == (~config /\ build # "none") => build = "ok"

\* C11 (Empty initial state): the record of a created task that has
\* completed no set_last_err call in task context, and is not past the
\* first store of its first one, is the zero record: it holds nothing its
\* creator or any other task wrote.
EmptyInitialState ==
    \A t \in Tasks :
        (/\ Created(t)
         /\ nrec[t] = 0
         /\ stack[t][1].pc \notin {"line", "errno"}) => last_err[t] = ZeroErr

\* B was created by A after A recorded an error, and has since executed a
\* statement that records nothing.
EmptyInitialStateWitness ==
    /\ last_err["A"].errno = 16
    /\ Created("B") /\ nrec["B"] = 0
    /\ Top("B").pc = "done" /\ Top("B").site = "hwdep30"
    /\ last_err["B"] = ZeroErr

\* The record the statement of frame f leaves when it recorded its own
\* return value.
OwnRecord(f) ==
    [file |-> Tree[f.site].file, line |-> Tree[f.site].line, errno |-> 0 - f.ret]

RECURSIVE other_positions(_)
other_positions(s) ==
    CASE s.k = "expr" -> <<s.e>>
      [] s.k = "if"   -> <<s.cond>> \o other_positions(s.then)
      [] s.k = "case" -> <<s.label>> \o other_positions(s.body)
      [] OTHER        -> << >>

\* C13 (Selection rule, only-if direction): a run of the script leaves
\* every expression outside an assignment's right-hand side, a
\* declaration's initialiser and a return's operand as it was.
OnlyRvalues ==
    [][other_positions(tree') = other_positions(tree)]_vars

\* The script has run over an expression statement that passes a listed
\* error to a function, and left it unwrapped.
OnlyRvaluesWitness ==
    /\ runs >= 1
    /\ tree.k = "expr"
    /\ names_of(tree.e) \cap ERRORS # {}
    /\ ~uses_ERR(tree.e)

\* The string a file field refers to is in memory.
StringExists(file) == file \in ModuleStrings => mod_state = "live"

\* C14 (File reference validity) as stated: the file field of every record
\* is NULL or refers to a string that exists.
FileValid ==
    \A t \in Tasks : last_err[t].file = NULL \/ StringExists(last_err[t].file)

\* C15 (Per-field guarantee): while a task is inside a writing
\* set_last_err call, each field of its record, which is what a concurrent
\* reader obtains for it, is the value it had before the call or the value
\* the call was given: the fields change one by one, in the order file,
\* line, errno.
PerFieldGuarantee ==
    \A t \in Tasks :
        LET f == stack[t][1]
            old == lastCall[t]
            new == Args(f)
        IN  InCall(f) =>
              /\ last_err[t].file = IF f.pc = "file" THEN old.file ELSE new.file
              /\ last_err[t].line = IF f.pc = "errno" THEN new.line ELSE old.line
              /\ last_err[t].errno = old.errno
              /\ (rd.target = t /\ rd.pc \in {"line", "errno"} /\ rd.ncalls = 1)
                    => rd.snap.file \in {old.file, new.file}
              /\ (rd.target = t /\ rd.pc = "errno" /\ rd.ncalls = 1)
                    => rd.snap.line \in {old.line, new.line}

\* A reader obtained the new file and then the old line of a record whose
\* owner is about to store the line.
PerFieldGuaranteeWitness ==
    \E t \in Tasks :
        /\ stack[t][1].pc = "line"
        /\ lastCall[t].errno = 16 /\ Args(stack[t][1]).errno = 19
        /\ rd.target = t /\ rd.pc = "errno" /\ rd.ncalls = 1
        /\ rd.snap.file = "net/wimax/op-state-get.c"
        /\ rd.snap.line = 31

\* The frames, of any task's stack, that are inside a writing set_last_err
\* call on the record of task t.
Writers(t) ==
    { <<u, i>> \in Tasks \X (1..MaxDepth + 1) :
        i <= Len(stack[u]) /\ InCall(stack[u][i]) /\ stack[u][i].ptr = t }

\* C16 (Single writer): the record of task t changes only in a step of t
\* itself, running in task context with no interrupt handler on top of it,
\* at a store of set_last_err; and never more than one call is writing a
\* given record.
SingleWriter ==
    [][\A t \in Tasks :
          /\ Cardinality(Writers(t)) <= 1
          /\ last_err'[t] # last_err[t] =>
                /\ Len(stack[t]) = 1
                /\ Top(t).ctx \in TaskCtx
                /\ Top(t).pc \in {"file", "line", "errno"}
                /\ Top(t).ptr = t
                /\ stack'[t] # stack[t]
                /\ \A u \in Tasks \ {t} : stack'[u] = stack[u] /\ last_err'[u] = last_err[u]]_vars

\* Both tasks are in the middle of a write to their own record, and a hard
\* interrupt handler that evaluated ERR() sits on top of one of them.
SingleWriterWitness ==
    /\ stack["A"][1].pc = "line" /\ stack["B"][1].pc = "errno"
    /\ Len(stack["A"]) = 2
    /\ Top("A").ctx = "hardirq" /\ Top("A").pc = "done" /\ Top("A").called = 1
    /\ Writers("A") = {<<"A", 1>>} /\ Writers("B") = {<<"B", 1>>}
    /\ last_err["A"].file # NULL /\ last_err["A"].line = 0
    /\ last_err["B"].line # 0

\* C17 (Non-blocking): a set_last_err call that a task has begun returns,
\* whatever locks the task or any other task holds and whether or not any
\* other task ever takes a step, and on the way it makes the three stores
\* and nothing else.
NonBlocking ==
    /\ \A t \in Tasks : (stack[t][1].pc = "call") ~> (stack[t][1].pc = "yield")
    /\ [][\A t \in Tasks :
            LET pc == stack[t][1].pc
                pc2 == stack'[t][1].pc
            IN  (pc \in {"call", "file", "line", "errno"} /\ pc2 # pc) =>
                   /\ pc = "call"  => pc2 = "file"
                   /\ pc = "file"  => pc2 = "line"
                   /\ pc = "line"  => pc2 = "errno"
                   /\ pc = "errno" => pc2 = "yield"
                   /\ stack'[t][1].ctx = stack[t][1].ctx]_vars

\* A recorded its error while it held reuseport_lock, B recorded its own
\* inside rcu_read_lock() while A still holds the lock.
NonBlockingWitness ==
    /\ stack["A"][1].ctx = "bh_off" /\ stack["A"][1].pc = "yield"
    /\ last_err["A"] = [file |-> "kernel/bpf/reuseport_array.c", line |-> 88, errno |-> 2]
    /\ stack["B"][1].ctx = "rcu" /\ stack["B"][1].pc = "done"
    /\ last_err["B"] = [file |-> "kernel/bpf/reuseport_array.c", line |-> 199, errno |-> 2]

\* C18 (No filtering at record time): when a set_last_err(file, line, c)
\* call of a task returns, the task's record is (file, line, c), whatever
\* the int c is.
NoFiltering ==
    \A t \in Tasks :
        LET f == stack[t][1]
        IN  (f.pc = "yield" /\ in_task(f.ctx)) => last_err[t] = Args(f)

\* One task recorded ENOMEM in its second call, the other a negative code.
NoFilteringWitness ==
    /\ stack["A"][1].pc = "yield" /\ stack["B"][1].pc = "yield"
    /\ lastCall["A"].file # NULL /\ nrec["A"] = 2
    /\ last_err["A"].errno = 12
    /\ last_err["B"] = [file |-> "net/wimax/op-state-get.c", line |-> 37, errno |-> 0 - 14]

\* C19 (Quiescent consistency): whenever a task is not between the entry
\* and the last store of a set_last_err call, its record is the initial
\* record if it has completed no call, and else the three arguments of its
\* last completed call.
QuiescentConsistency ==
    \A t \in Tasks :
        ~InCall(stack[t][1]) =>
            last_err[t] = IF nrec[t] = 0 THEN ZeroErr ELSE lastCall[t]

\* A task has completed two calls, its record is the triple of the second,
\* and a softirq handler that evaluated ERR() on its stack has left it so.
QuiescentConsistencyWitness ==
    \E t \in Tasks :
        /\ nrec[t] = 2
        /\ Len(stack[t]) = 2
        /\ stack[t][1].pc = "done"
        /\ Top(t).ctx = "softirq" /\ Top(t).pc = "done" /\ Top(t).called = 1
        /\ last_err[t] = [file |-> "net/wimax/op-state-get.c", line |-> 37, errno |-> 19]

\* C20 (Recording only on failure) as stated: a call of ethnl_set_channels
\* or xfs_set_acl that returned 0 left the task's record as it was when
\* the call began.
RecordOnlyOnFailure ==
    \A t \in Tasks :
        LET f == stack[t][1]
        IN  (f.pc = "returned" /\ f.ret = 0) => last_err[t] = f.before

\* C21 (nci_to_errno): a call in task context with NCI_STATUS_OK returned 0
\* and left the record as it was; a call with any other code made one
\* recording and returned r < 0, the record's errno is -r, its line is the
\* line of the return statement taken, and r is -ENOSYS for a code the
\* switch has no label for.
NciToErrno ==
    \A t \in Tasks :
        LET f == stack[t][1]
        IN  (f.pc = "done" /\ f.arg \in NciCodes) =>
              IF f.arg = "NCI_STATUS_OK"
              THEN f.ret = 0 /\ f.called = 0 /\ last_err[t] = f.before
              ELSE /\ f.called = 1
                   /\ f.ret < 0
                   /\ last_err[t].errno = 0 - f.ret
                   /\ last_err[t].line = Source[f.site].line
                   /\ last_err[t].file = "net/nfc/nci/lib.c"
                   /\ f.arg \in {"unlisted", "NCI_STATUS_FAILED"} => f.ret = 0 - 38

\* A task got -ENOSYS for a code without a label, which replaced the
\* record (line 44, EPROTO) of its call before.
NciToErrnoWitness ==
    \E t \in Tasks :
        /\ stack[t][1].pc = "done" /\ stack[t][1].arg = "unlisted"
        /\ stack[t][1].ret = 0 - 38 /\ stack[t][1].called = 1
        /\ stack[t][1].before.line = 44 /\ stack[t][1].before.errno = 71
        /\ last_err[t].line = 70 /\ last_err[t].errno = 38

\* C22 (Wrapper in one arm of a conditional): a call of __xfs_set_acl with
\* ACL_TYPE_DEFAULT on an inode that is no directory recorded EACCES at its
\* line and returned -EACCES when acl was not NULL, and returned 0 with the
\* record as it was when acl was NULL.
ArmEvaluated ==
    \A t \in Tasks :
        LET f == stack[t][1]
        IN  (f.pc = "done" /\ f.site \in {"xfs315:acl", "xfs315:NULL"}) =>
              IF f.arg # NULL
              THEN /\ f.called = 1 /\ f.ret = 0 - 13
                   /\ last_err[t] = [file |-> "fs/xfs/xfs_acl.c", line |-> 315, errno |-> 13]
              ELSE /\ f.called = 0 /\ f.ret = 0
                   /\ last_err[t] = f.before

\* One task got 0 for a NULL acl and kept the record of its nci_to_errno
\* call, the other got -EACCES for an acl.
ArmEvaluatedWitness ==
    /\ stack["A"][1].pc = "done" /\ stack["A"][1].site = "xfs315:NULL"
    /\ stack["A"][1].ret = 0
    /\ last_err["A"] = [file |-> "net/nfc/nci/lib.c", line |-> 31, errno |-> 16]
    /\ stack["B"][1].pc = "done" /\ stack["B"][1].site = "xfs315:acl"
    /\ stack["B"][1].ret = 0 - 13
    /\ last_err["B"].errno = 13

\* The statement an if or a case label guards.
RECURSIVE guarded_stmt(_)
guarded_stmt(s) ==
    CASE s.k = "if"   -> guarded_stmt(s.then)
      [] s.k = "case" -> guarded_stmt(s.body)
      [] OTHER        -> s

\* The number of ERR() expressions the evaluation of e reaches.
RECURSIVE ERR_reached(_)
ERR_reached(e) ==
    CASE e.k = "id"   -> 0
      [] e.k = "num"  -> 0
      [] e.k = "neg"  -> ERR_reached(e.a)
      [] e.k = "eq"   -> ERR_reached(e.a) + ERR_reached(e.b)
      [] e.k = "cond" -> ERR_reached(e.c) +
                         (IF value(e.c, TRUE) # 0 THEN ERR_reached(e.a) ELSE ERR_reached(e.b))
      [] e.k = "call" -> (IF e.f = "ERR" THEN 1 ELSE 0) + ERR_reached(e.arg)

\* C23 (ERR evaluates its argument once) as stated: executing a statement
\* makes one set_last_err call for each ERR() it reaches, also when the
\* argument of an ERR() is itself an expression that records.
ArgumentOnce ==
    LET e == Rvalue(guarded_stmt(tree))
    IN  Len(err_calls(e)) = ERR_reached(e)

====
